---------------------------- MODULE Spec2Model ----------------------------
(***************************************************************************)
(* The chat session of src/src/components/ChatInterface.tsx as a state     *)
(* machine: the React state of ChatInterface, one action per event         *)
(* handler, and the suspended handleSendMessage calls that wait for        *)
(* axios.post.                                                             *)
(*                                                                         *)
(* A JavaScript string is modelled as a sequence of string tokens, so that *)
(* trim, toLowerCase, endsWith and concatenation are computed, not         *)
(* assumed.  File names and the pending input are sequences of one-letter  *)
(* tokens.                                                                 *)
(*                                                                         *)
(* Every handler is an operation that can be invoked in any state.  The    *)
(* disabled props of lines 608, 617 and 622 keep the rendered controls     *)
(* from invoking some of them while isLoading is set; the behaviours of    *)
(* the rendered page are therefore among the behaviours checked here.      *)
(*                                                                         *)
(* React runs each handler, and each continuation after an await, to its   *)
(* end before the next event: one handler run is one step.                 *)
(***************************************************************************)
EXTENDS Integers, Sequences, FiniteSets, TLC

VARIABLES
    messages,          \* useState<Message[]>, line 53
    inputValue,        \* useState(""), line 61
    isLoading,         \* useState(false), line 62
    selectedFiles,     \* useState<File[]>([]), line 63
    showJsonTemplate,  \* useState(false), line 64
    chatHistory,       \* useState<ChatMessage[]>([]), line 65
    awaiting,          \* the handleSendMessage calls suspended at the await of line 236
    now,               \* the last reading of Date.now()
    escaped,           \* TRUE once a handleSendMessage promise has rejected
    acknowledged       \* the chat_history of the last answer handled as a success

vars == <<messages, inputValue, isLoading, selectedFiles, showJsonTemplate,
          chatHistory, awaiting, now, escaped, acknowledged>>

-----------------------------------------------------------------------------
(* Bounds of the model *)

\* accepted sends in one behaviour
MaxSends == 2

\* the clock advances at most this many milliseconds
MaxTicks == 1

\* the first clock reading; the greeting's id is "1" and any real Date.now() is larger
StartClock == 2

-----------------------------------------------------------------------------
(* Strings *)

Whitespace == {" ", "\t", "\n"}

RECURSIVE trimStart(_)
trimStart(s) ==
    IF s # <<>> /\ Head(s) \in Whitespace THEN trimStart(Tail(s)) ELSE s

RECURSIVE trimEnd(_)
trimEnd(s) ==
    IF s # <<>> /\ s[Len(s)] \in Whitespace
        THEN trimEnd(SubSeq(s, 1, Len(s) - 1))
        ELSE s

\* String.prototype.trim
trim(s) == trimEnd(trimStart(s))

lowerOf(c) ==
    CASE c = "A" -> "a" [] c = "B" -> "b" [] c = "J" -> "j" [] c = "S" -> "s"
      [] c = "O" -> "o" [] c = "N" -> "n" [] c = "T" -> "t" [] c = "X" -> "x"
      [] OTHER -> c

\* String.prototype.toLowerCase
toLowerCase(s) == [i \in 1..Len(s) |-> lowerOf(s[i])]

\* String.prototype.endsWith
endsWith(s, suffix) ==
    /\ Len(s) >= Len(suffix)
    /\ SubSeq(s, Len(s) - Len(suffix) + 1, Len(s)) = suffix

\* a JavaScript string is truthy when it is not empty
truthy(s) == s # <<>>

DotJson == <<".", "j", "s", "o", "n">>

-----------------------------------------------------------------------------
(* The inputs of the model *)

FileA == [name |-> <<"a", ".", "j", "s", "o", "n">>, size |-> 120, type |-> "application/json"]
FileB == [name |-> <<"B", ".", "J", "S", "O", "N">>, size |-> 64, type |-> "application/json"]
FileN == [name |-> <<"n", ".", "t", "x", "t">>, size |-> 9, type |-> "text/plain"]
FileJ == [name |-> <<"j", "s", "o", "n">>, size |-> 0, type |-> ""]

\* what the file dialog can hand to handleFileSelect
Selections ==
    { <<>>, <<FileA>>, <<FileN>>, <<FileJ>>, <<FileB, FileA>>,
      <<FileN, FileA>>, <<FileN, FileJ>> }

\* what the user can leave in the input box
Texts == { <<>>, <<" ">>, <<"q">> }

Turn(role, content) == [role |-> role, content |-> content]

History1 == << Turn("user", "q"), Turn("assistant", "r") >>
History2 == << Turn("user", "x"), Turn("assistant", "y"), Turn("user", "q") >>

ReplyText == <<"Query X is slow">>

\* the bodies a 2xx answer can carry (ChatResponse, lines 46-50)
ResponseData ==
    { [message |-> ReplyText, chat_history |-> h, hasError |-> FALSE, error |-> <<>>] :
         h \in {History1, History2} }
    \cup
    { [message |-> ReplyText, chat_history |-> History1, hasError |-> TRUE, error |-> e] :
         e \in { <<>>, <<"boom">> } }

\* the messages of the errors axios.post rejects with
RejectReasons == { <<"Network Error">> }


-----------------------------------------------------------------------------
(* File staging: handleFileSelect and removeFile *)

\* file.name.toLowerCase().endsWith(".json"), lines 119-121 and 227-229
isJsonName(name) == endsWith(toLowerCase(name), DotJson)

isJsonFile(file) == isJsonName(file.name)

\* files.filter(...), lines 119-121
filterJson(files) == SelectSeq(files, isJsonFile)

\* the staged files handleFileSelect leaves, lines 117-128: a non-empty
\* selection without any JSON-named file raises the alert and returns early
stagedAfterSelect(prev, files) ==
    LET jsonFiles == filterJson(files)
    IN  IF Len(files) > 0 /\ Len(jsonFiles) = 0 THEN prev ELSE jsonFiles

RECURSIVE filterNotIndex(_, _, _)
filterNotIndex(s, i, index) ==
    IF s = <<>> THEN <<>>
    ELSE (IF i # index THEN <<Head(s)>> ELSE <<>>)
             \o filterNotIndex(Tail(s), i + 1, index)

\* mutation: the positions are counted from one
withoutIndexFromOne(prev, index) == filterNotIndex(prev, 1, index)

\* prev.filter((_, i) => i !== index), line 136
withoutIndex(prev, index) == filterNotIndex(prev, 0, index)

-----------------------------------------------------------------------------
(* Messages *)

GreetingText == <<"Hello! I'm your DB Assistant.">>

\* the first message, lines 54-59
Greeting(t) ==
    [id |-> <<"1">>, text |-> GreetingText, sender |-> "bot", timestamp |-> t,
     files |-> <<>>]

\* Date.now().toString(), lines 201, 252, 267
idOf(t) == <<ToString(t)>>

\* one FileAttachment, lines 192-198 (the object URL is a display handle
\* and is left out)
attachmentOf(file, t) ==
    [id |-> idOf(t) \o <<"-">> \o file.name, name |-> file.name,
     size |-> file.size, type |-> file.type]

\* selectedFiles.map(...), lines 192-198
fileAttachments(files, t) == [i \in 1..Len(files) |-> attachmentOf(files[i], t)]

\* the text of the user message, lines 202-206
userText(input, files) ==
    IF truthy(input) THEN input
    ELSE IF Len(files) > 0
        THEN <<"Sent ", ToString(Len(files)), " file(s)">>
        ELSE <<>>

\* userMessage, lines 200-210; files |-> <<>> stands for undefined
userMessage(input, files, t) ==
    [id |-> idOf(t), text |-> userText(input, files), sender |-> "user",
     timestamp |-> t, files |-> fileAttachments(files, t)]

\* botResponse, lines 251-256
botResponse(data, t) ==
    [id |-> idOf(t + 1), text |-> data.message, sender |-> "bot",
     timestamp |-> t, files |-> <<>>]

\* the text of the failure message, lines 268-270
errorText(reason) ==
    <<"Sorry, I encountered an error: ">> \o reason
        \o <<". Please make sure the backend server is running.">>

\* errorMessage, lines 266-273
errorMessage(reason, t) ==
    [id |-> idOf(t + 1), text |-> errorText(reason), sender |-> "bot",
     timestamp |-> t, files |-> <<>>]

\* mutation: the new message is put in front of the log
prependMessage(prev, m) == <<m>> \o prev

\* [...prev, m], lines 212, 258, 275
appendMessage(prev, m) == Append(prev, m)

-----------------------------------------------------------------------------
(* The request *)

stringifyTurn(turn) ==
    <<"{\"role\":\"", turn.role, "\",\"content\":\"", turn.content, "\"}">>

RECURSIVE stringifyTurns(_)
stringifyTurns(h) ==
    IF h = <<>> THEN <<>>
    ELSE IF Len(h) = 1 THEN stringifyTurn(h[1])
    ELSE stringifyTurn(h[1]) \o <<",">> \o stringifyTurns(Tail(h))

\* JSON.stringify(chatHistory), line 223
JSONstringify(h) == <<"[">> \o stringifyTurns(h) \o <<"]">>

\* mutation: the last JSON-named file is taken instead of the first
findLastJsonFile(files) ==
    LET found == SelectSeq(files, isJsonFile)
    IN  IF found = <<>> THEN <<>> ELSE << found[Len(found)] >>

\* currentFiles.find(...), lines 227-229; <<>> stands for undefined
findJsonFile(files) ==
    LET found == SelectSeq(files, isJsonFile)
    IN  IF found = <<>> THEN <<>> ELSE <<Head(found)>>

\* mutation: the history of the first render is sent with every request
buildFormDataInitialHistory(currentInput, history, currentFiles) ==
    [message |-> currentInput,
     chat_history |-> JSONstringify(<<>>),
     file |-> IF Len(currentFiles) > 0 THEN findJsonFile(currentFiles) ELSE <<>>]

\* the FormData of lines 221-233; file holds the parts named "file"
buildFormData(currentInput, history, currentFiles) ==
    [message |-> currentInput,
     chat_history |-> JSONstringify(history),
     file |-> IF Len(currentFiles) > 0 THEN findJsonFile(currentFiles) ELSE <<>>]

\* mutation: the pending text is tested without trim()
sendRejectedNoTrim(input, files, loading) ==
    (~truthy(input) /\ Len(files) = 0) \/ loading

\* mutation: the in-flight flag is not tested
sendRejectedNoLoading(input, files, loading) ==
    ~truthy(trim(input)) /\ Len(files) = 0

\* the early return of line 189
sendRejected(input, files, loading) ==
    (~truthy(trim(input)) /\ Len(files) = 0) \/ loading

\* setInputValue(""), line 214
inputAfterDispatch(currentInput) == <<>>

\* mutation: the staged files are kept after the dispatch
filesKept(currentFiles) == currentFiles

\* setSelectedFiles([]), line 216
filesAfterDispatch(currentFiles) == <<>>

\* mutation: the error field of the answer is not looked at
responseErrorIgnored(data) == FALSE

\* if (response.data.error), line 246
responseHasError(data) == data.hasError /\ truthy(data.error)

\* mutation: the answer's history is appended to the client's copy
historyMerged(prev, data) == prev \o data.chat_history

\* setChatHistory(response.data.chat_history), line 261
historyAfterSuccess(prev, data) == data.chat_history

\* mutation: the flag is cleared on the success path only
loadingLeftOnFailure(failed) == failed

\* setIsLoading(false) in the finally block, lines 276-278; failed says
\* whether the catch block ran
loadingAfterSettle(failed) == FALSE

-----------------------------------------------------------------------------
(* The state after construction, lines 53-65 *)

Init ==
    /\ now = StartClock
    /\ messages = << Greeting(now) >>
    /\ inputValue = <<>>
    /\ isLoading = FALSE
    /\ selectedFiles = <<>>
    /\ showJsonTemplate = FALSE
    /\ chatHistory = <<>>
    /\ awaiting = <<>>
    /\ escaped = FALSE
    /\ acknowledged = <<>>

\* the user messages of a log
userMessages(log) == SelectSeq(log, LAMBDA m : m.sender = "user")

-----------------------------------------------------------------------------
(* The event handlers *)

\* Date.now() is read again later: the clock has advanced by a millisecond
Tick ==
    /\ now < StartClock + MaxTicks
    /\ now' = now + 1
    /\ UNCHANGED <<messages, inputValue, isLoading, selectedFiles,
                   showJsonTemplate, chatHistory, awaiting, escaped, acknowledged>>

\* onChange of the input box, line 614
setInputValue(value) ==
    /\ inputValue' = value
    /\ UNCHANGED <<messages, isLoading, selectedFiles, showJsonTemplate,
                   chatHistory, awaiting, now, escaped, acknowledged>>

\* lines 116-133
handleFileSelect(files) ==
    /\ selectedFiles' = stagedAfterSelect(selectedFiles, files)
    /\ UNCHANGED <<messages, inputValue, isLoading, showJsonTemplate,
                   chatHistory, awaiting, now, escaped, acknowledged>>

\* lines 135-137
removeFile(index) ==
    /\ selectedFiles' = withoutIndex(selectedFiles, index)
    /\ UNCHANGED <<messages, inputValue, isLoading, showJsonTemplate,
                   chatHistory, awaiting, now, escaped, acknowledged>>

\* the JSON Template button, line 304
toggleJsonTemplate ==
    /\ showJsonTemplate' = ~showJsonTemplate
    /\ UNCHANGED <<messages, inputValue, isLoading, selectedFiles,
                   chatHistory, awaiting, now, escaped, acknowledged>>

\* the X button of the banner, line 325; the banner is rendered only when shown
closeJsonTemplate ==
    /\ showJsonTemplate
    /\ showJsonTemplate' = FALSE
    /\ UNCHANGED <<messages, inputValue, isLoading, selectedFiles,
                   chatHistory, awaiting, now, escaped, acknowledged>>

\* lines 154-163: writes the clipboard, no session state
copyJsonTemplate ==
    /\ showJsonTemplate
    /\ UNCHANGED vars

\* lines 165-177: saves a file, no session state
downloadJsonTemplate ==
    /\ showJsonTemplate
    /\ UNCHANGED vars

\* lines 179-186; the button is rendered on bot messages with a text, line 393
copyBotMessage(i) ==
    /\ messages[i].sender = "bot"
    /\ truthy(messages[i].text)
    /\ UNCHANGED vars

\* lines 188-236: the call runs up to the await of axios.post in one step
handleSendMessage ==
    \/ /\ sendRejected(inputValue, selectedFiles, isLoading)
       /\ UNCHANGED vars
    \/ /\ ~sendRejected(inputValue, selectedFiles, isLoading)
       /\ Len(userMessages(messages)) < MaxSends
       /\ LET currentInput == inputValue
              currentFiles == selectedFiles
          IN  /\ messages' = appendMessage(
                     messages, userMessage(inputValue, selectedFiles, now))
              /\ inputValue' = inputAfterDispatch(currentInput)
              /\ selectedFiles' = filesAfterDispatch(currentFiles)
              /\ isLoading' = TRUE
              /\ awaiting' = Append(awaiting,
                     [messages |-> messages,
                      chatHistory |-> chatHistory,
                      currentInput |-> currentInput,
                      currentFiles |-> currentFiles,
                      formData |-> buildFormData(
                          currentInput, chatHistory, currentFiles)])
       /\ UNCHANGED <<showJsonTemplate, chatHistory, now, escaped, acknowledged>>

\* lines 281-286
handleKeyPress(key, shiftKey) ==
    IF key = "Enter" /\ ~shiftKey
        THEN handleSendMessage
        ELSE UNCHANGED vars

\* the call at position i of awaiting is no longer suspended
resumed(i) == SubSeq(awaiting, 1, i - 1) \o SubSeq(awaiting, i + 1, Len(awaiting))

\* lines 262-278: the catch block, then the finally block
catchAndFinally(i, reason) ==
    /\ messages' = appendMessage(messages, errorMessage(reason, now))
    /\ isLoading' = loadingAfterSettle(TRUE)
    /\ awaiting' = resumed(i)
    /\ UNCHANGED <<inputValue, selectedFiles, showJsonTemplate, chatHistory,
                   now, escaped, acknowledged>>

\* lines 236-261, 276-278: axios.post fulfils with a 2xx answer
axiosResolve(i, data) ==
    IF responseHasError(data)
        THEN catchAndFinally(i, data.error)
        ELSE /\ messages' = appendMessage(messages, botResponse(data, now))
             /\ chatHistory' = historyAfterSuccess(chatHistory, data)
             /\ isLoading' = loadingAfterSettle(FALSE)
             /\ awaiting' = resumed(i)
             /\ acknowledged' = data.chat_history
             /\ UNCHANGED <<inputValue, selectedFiles, showJsonTemplate,
                            now, escaped>>

\* lines 236, 262-278: axios.post rejects (network failure, non-2xx status)
axiosReject(i, reason) == catchAndFinally(i, reason)

\* the Transport answers one of the outstanding requests
Settle ==
    \E i \in 1..Len(awaiting) :
        \/ \E data \in ResponseData : axiosResolve(i, data)
        \/ \E reason \in RejectReasons : axiosReject(i, reason)

Next ==
    \/ Tick
    \/ \E value \in Texts : setInputValue(value)
    \/ \E files \in Selections : handleFileSelect(files)
    \/ \E index \in 0..2 : removeFile(index)
    \/ toggleJsonTemplate
    \/ closeJsonTemplate
    \/ copyJsonTemplate
    \/ downloadJsonTemplate
    \/ \E i \in 1..Len(messages) : copyBotMessage(i)
    \/ handleSendMessage
    \/ \E key \in {"Enter", "a"}, shiftKey \in BOOLEAN : handleKeyPress(key, shiftKey)
    \/ Settle

Spec == Init /\ [][Next]_vars

\* the Transport answers every request: axios.post settles
FairSpec == Spec /\ WF_vars(Settle)

-----------------------------------------------------------------------------
(* Vocabulary of the properties *)

IsPrefix(s, t) == Len(s) <= Len(t) /\ SubSeq(t, 1, Len(s)) = s

last(s) == s[Len(s)]

\* pending text is empty or whitespace-only
BlankText(input) == \A k \in 1..Len(input) : input[k] \in Whitespace

\* a bot message that reports a failure
IsFailureMessage(m) ==
    /\ m.sender = "bot"
    /\ Len(m.text) > 0
    /\ Head(m.text) = "Sorry, I encountered an error: "

\* the file names of a sequence of files or attachments
names(fs) == [k \in 1..Len(fs) |-> fs[k].name]

\* an accepted send(): a call has reached axios.post
Dispatched == Len(awaiting') = Len(awaiting) + 1

\* log is the log before a send, followed by its user message and reply
TwoAppended(before, log) ==
    /\ Len(log) = Len(before) + 2
    /\ IsPrefix(before, log)
    /\ log[Len(before) + 1].sender = "user"
    /\ log[Len(before) + 2].sender = "bot"

-----------------------------------------------------------------------------
(* C1: send() is a no-op whenever (the pending text is empty or            *)
(* whitespace-only and no file is staged) or a request is in flight: no    *)
(* Message is appended, no Transport call is issued, and pending text,     *)
(* staged files, chat history and the in-flight flag stay as they were.    *)
C1_SendBlockedIsNoOp ==
    [][ ( /\ (BlankText(inputValue) /\ selectedFiles = <<>>) \/ isLoading
          /\ handleSendMessage )
        => UNCHANGED <<messages, awaiting, inputValue, selectedFiles,
                       chatHistory, isLoading>> ]_vars

\* a send() was refused on whitespace-only text with nothing staged and nothing in flight
C1_Witness ==
    /\ inputValue = <<" ">>
    /\ selectedFiles = <<>>
    /\ ~isLoading
    /\ Len(messages) = 1

(* C2: at most one Transport request is outstanding in every reachable     *)
(* state, and one is outstanding exactly while the in-flight flag is set.  *)
C2_AtMostOneOutstanding ==
    /\ Len(awaiting) <= 1
    /\ isLoading <=> Len(awaiting) = 1

\* a send() with text and a staged file was refused while a request was outstanding
C2_Witness ==
    /\ Len(awaiting) = 1
    /\ inputValue = <<"q">>
    /\ selectedFiles = <<FileA>>

(* C3: when a send() succeeds (the answer carries no non-empty error), the *)
(* log is the log before the send followed by exactly a user Message and a *)
(* bot Message whose text is the answer's message, and the chat history is *)
(* exactly the answer's chat_history.                                      *)
C3_SuccessAppendsTwoAndReplacesHistory ==
    [][ \A i \in 1..Len(awaiting), data \in ResponseData :
          (axiosResolve(i, data) /\ ~(data.hasError /\ data.error # <<>>))
          => /\ TwoAppended(awaiting[i].messages, messages')
             /\ last(messages').text = data.message
             /\ chatHistory' = data.chat_history ]_vars

\* a second send() succeeded over a non-empty prior history
C3_Witness ==
    /\ ~isLoading
    /\ Len(messages) = 5
    /\ messages[3].text = ReplyText
    /\ messages[5].text = ReplyText
    /\ chatHistory = History1

\* the effects C4 states of a failed send() of the call at position i
C4_FailureEffects(i) ==
    /\ TwoAppended(awaiting[i].messages, messages')
    /\ IsFailureMessage(last(messages'))
    /\ chatHistory' = awaiting[i].chatHistory
    /\ ~isLoading'
    /\ ~escaped'

(* C4, as stated: after a failed send() (axios.post rejects, or the answer *)
(* carries an error field) the log is the log before the send plus the     *)
(* user Message and one bot failure Message, the chat history is as before *)
(* the send, the in-flight flag is cleared and no error has escaped.       *)
C4_AnyErrorFieldIsFailure ==
    [][ \A i \in 1..Len(awaiting) :
          /\ \A reason \in RejectReasons :
                axiosReject(i, reason) => C4_FailureEffects(i)
          /\ \A data \in ResponseData :
                (axiosResolve(i, data) /\ data.hasError)
                => C4_FailureEffects(i) ]_vars

(* C4, amended: the same, for an answer that carries a non-empty error     *)
(* field; an empty error field is not a failure.                           *)
C4_NonEmptyErrorIsFailure ==
    [][ \A i \in 1..Len(awaiting) :
          /\ \A reason \in RejectReasons :
                axiosReject(i, reason) => C4_FailureEffects(i)
          /\ \A data \in ResponseData :
                (axiosResolve(i, data) /\ data.hasError /\ data.error # <<>>)
                => C4_FailureEffects(i) ]_vars

\* a send() failed on the answer's error field after an earlier one succeeded
C4_Witness ==
    /\ ~isLoading
    /\ Len(messages) = 5
    /\ IsFailureMessage(messages[5])
    /\ messages[5].text[2] = "boom"
    /\ chatHistory = History2

(* C5: whatever is staged, stageFiles(selection) leaves exactly the        *)
(* JSON-named files of the selection staged; after a selection of only     *)
(* non-JSON-named files nothing is staged.                                 *)
C5_StagedIsLatestJsonSelection ==
    \A files \in Selections :
        stagedAfterSelect(selectedFiles, files)
            = SelectSeq(files, LAMBDA f : isJsonName(f.name))

(* C6: all Messages of the log have pairwise distinct identifiers.         *)
C6_DistinctIds ==
    \A i, j \in 1..Len(messages) :
        i # j => messages[i].id # messages[j].id

(* C7: an accepted send() issues a request with at most one file part: the *)
(* first JSON-named staged file when files are staged, none otherwise; and *)
(* the user Message lists every staged file in staging order.              *)
C7_OneFilePerRequest ==
    [][ Dispatched =>
          LET request == last(awaiting').formData
              staged == selectedFiles
          IN  /\ Len(request.file) <= 1
              /\ staged = <<>> => request.file = <<>>
              /\ staged # <<>> =>
                    \E k \in 1..Len(staged) :
                        /\ isJsonName(staged[k].name)
                        /\ \A j \in 1..(k - 1) : ~isJsonName(staged[j].name)
                        /\ request.file = << staged[k] >>
              /\ last(messages').sender = "user"
              /\ names(last(messages').files) = names(staged) ]_vars

\* two files were staged and sent: the request carries the first only
C7_Witness ==
    /\ Len(awaiting) = 1
    /\ awaiting[1].currentFiles = <<FileB, FileA>>
    /\ awaiting[1].formData.file = <<FileB>>
    /\ Len(last(messages).files) = 2

\* send() is accepted for every non-blank text and for every staged file
AcceptsAgain ==
    \A input \in Texts, files \in {<<>>, <<FileA>>} :
        (~BlankText(input) \/ files # <<>>)
        => ~sendRejected(input, files, isLoading)

(* C8: if the Transport answers every request, an accepted send() leads to *)
(* a state where the in-flight flag is false and a send() with non-blank   *)
(* text or staged files is accepted again.                                 *)
C8_FlagEventuallyCleared ==
    isLoading ~> (~isLoading /\ AcceptsAgain)

\* a send() was accepted after an earlier one had failed
C8_Witness ==
    /\ Len(messages) = 4
    /\ IsFailureMessage(messages[3])
    /\ isLoading
    /\ Len(awaiting) = 1

(* C9: the log before any operation is a prefix of the log after it.       *)
C9_LogAppendOnly ==
    [][ IsPrefix(messages, messages') ]_vars

\* two sends have been answered and the template banner is open
C9_Witness ==
    /\ Len(messages) = 5
    /\ showJsonTemplate
    /\ selectedFiles # <<>>

(* C10: an accepted send() leaves the pending text and the staged files    *)
(* empty, and the step that reports its failure changes neither.           *)
C10_ClearedAtDispatchNotRestored ==
    [][ /\ Dispatched => (inputValue' = <<>> /\ selectedFiles' = <<>>)
        /\ ( /\ Len(awaiting') < Len(awaiting)
             /\ IsFailureMessage(last(messages')) )
           => UNCHANGED <<inputValue, selectedFiles>> ]_vars

\* a send() with text and a file failed and neither came back
C10_Witness ==
    /\ ~isLoading
    /\ Len(messages) = 3
    /\ messages[2].text = <<"q">>
    /\ Len(messages[2].files) = 1
    /\ IsFailureMessage(messages[3])
    /\ inputValue = <<>>
    /\ selectedFiles = <<>>

\* the staged files without the one at position index (counted from zero)
WithoutPosition(staged, index) ==
    SubSeq(staged, 1, index) \o SubSeq(staged, index + 2, Len(staged))

\* the positions unstageFile is tried with: before, within and past the staged files
Positions == -1 .. 3

(* C11: unstageFile(index) with an index within the bounds leaves the      *)
(* staged files without the one at that position, the others in their      *)
(* order; with an index outside the bounds it leaves them as they are; and  *)
(* it changes neither the log, the chat history, the pending text nor the   *)
(* in-flight flag.                                                          *)
C11_UnstageRemovesOnePosition ==
    /\ [] \A index \in Positions :
            withoutIndex(selectedFiles, index) =
                IF index \in 0 .. (Len(selectedFiles) - 1)
                    THEN WithoutPosition(selectedFiles, index)
                    ELSE selectedFiles
    /\ [][ \A index \in Positions :
             removeFile(index) =>
                 UNCHANGED <<messages, chatHistory, inputValue, isLoading>> ]_vars

\* the second of two staged files was unstaged while a request was outstanding
C11_Witness ==
    /\ selectedFiles = <<FileB>>
    /\ isLoading
    /\ inputValue = <<"q">>

(* C12: the history a request transmits is the serialized chat_history of  *)
(* the most recent answer handled as a success, or of the empty sequence   *)
(* when there is none yet; this is what a send() would transmit in every   *)
(* state, also after failed sends, and what every accepted send() does     *)
(* transmit.                                                               *)
C12_TransmitsAcknowledgedHistory ==
    /\ [] ( buildFormData(inputValue, chatHistory, selectedFiles).chat_history
                = JSONstringify(acknowledged) )
    /\ [][ Dispatched =>
             last(awaiting').formData.chat_history
                 = JSONstringify(acknowledged) ]_vars

\* a send() succeeded, the next one failed, and a third is ready to go
C12_Witness ==
    /\ ~isLoading
    /\ Len(messages) = 5
    /\ messages[3].text = ReplyText
    /\ IsFailureMessage(messages[5])
    /\ acknowledged = History2
    /\ inputValue = <<"q">>

(* C13: the log is the greeting followed by Messages that alternate        *)
(* between user and bot, starting with a user Message, and the in-flight   *)
(* flag is set exactly when the last Message of the log is a user Message. *)
C13_AlternatingLog ==
    /\ Len(messages) >= 1
    /\ messages[1] = Greeting(messages[1].timestamp)
    /\ \A k \in 2..Len(messages) :
          messages[k].sender = (IF k % 2 = 0 THEN "user" ELSE "bot")
    /\ isLoading <=> last(messages).sender = "user"

\* the second user Message is waiting for its reply
C13_Witness ==
    /\ Len(messages) = 4
    /\ isLoading
    /\ messages[3].sender = "bot"
    /\ messages[4].sender = "user"

=============================================================================
